---- MODULE Spec2Model ----
(***************************************************************************)
(* Model of the agent orchestration subsystem of web-agent:                *)
(*   src/agent.py               BrowserAgent, PlanAndExecuteAgent,         *)
(*                              ReflectionAgent (run_task of each)         *)
(*   src/browser_use_adapter.py BrowserUseAdapter (session, observe,       *)
(*                              execute_action)                            *)
(* One agent instance is modelled.  Its strategy is fixed at construction. *)
(* run_task may be invoked again on the same instance once the previous    *)
(* invocation has ended.  Every await of run_task is one action; the       *)
(* synchronous code that follows an await up to the next one belongs to    *)
(* the same action.  External calls (browser backend, LLM) answer          *)
(* nondeterministically: a value, or an exception.                         *)
(***************************************************************************)
EXTENDS Integers, Sequences, FiniteSets, TLC

\* ---------------------------------------------------------------- bounds
\* BrowserAgent.__init__ parameter max_steps (default 50), kept small here.
max_steps == 2
\* Number of run_task invocations made on the one agent instance.
MaxRuns == 2
\* Longest plan the Planner answers with.
MaxPlanLen == 3

\* ------------------------------------------------------------ data model
\* ActionModel: kind and the names of the parameters that carry a truthy value.
Act(kind, params) == [action |-> kind, parameters |-> params]

NoAction == Act("none", {})

\* The answers the LLM gives where an ActionModel is requested.
Intents == { Act("goto", {"url"}), Act("click", {}), Act("stop", {}) }

\* BrowserActionResult (success, result); page_state is not read by the agents.
BrowserActionResult(ok, text) == [success |-> ok, result |-> text]

NoOutcome == BrowserActionResult(FALSE, "none")

\* One step of AgentHistory: the action and the ActionResult built from the outcome.
Entry(a, out) == [action |-> a, success |-> out.success, result |-> out.result]

\* AgentOutput(success, result, history).  step_num is the ordinal the message
\* names, -1 when it names none.
AgentOutput(ok, text, n, h) ==
  [success |-> ok, message |-> [text |-> text, step_num |-> n], history |-> h]

NoResult == AgentOutput(FALSE, "<no result>", -1, <<>>)

\* Variant of SuccessOutput: falling out of the loop is reported as a failure.
BudgetExhaustedOutput(h) == AgentOutput(FALSE, "Step budget exhausted", -1, h)

\* AgentOutput(success=True, result="Task completed successfully", ...), the
\* return statement after the loop.
SuccessOutput(h) == AgentOutput(TRUE, "Task completed successfully", -1, h)

\* Variant of ErrorOutput: the except clause reports the run as completed.
ErrorOutputAsSuccess(h) == AgentOutput(TRUE, "Task completed successfully", -1, h)

\* except clause of run_task: AgentOutput(success=False, result="Error: ...")
ErrorOutput(h) == AgentOutput(FALSE, "Error", -1, h)

FailedStepOutput(n, h) == AgentOutput(FALSE, "Failed to execute step", n, h)

\* All sequences over S of length 0..n.
RECURSIVE SeqsUpTo(_, _)
SeqsUpTo(S, n) ==
  IF n = 0 THEN { <<>> }
  ELSE LET shorter == SeqsUpTo(S, n - 1)
       IN shorter \cup { Append(p, a) : p \in { q \in shorter : Len(q) = n - 1 }, a \in S }

\* The plans the Planner answers with (a plan step is its ActionModel).
Plans == SeqsUpTo(Intents, MaxPlanLen)

\* ------------------------------------------------------------- adapter
\* Variant of ExecuteAction: parameters and kind are not examined.
ExecuteActionLenient(a, backend_ok) ==
  IF backend_ok THEN BrowserActionResult(TRUE, "Done")
  ELSE BrowserActionResult(FALSE, "Error executing action")

\* BrowserUseAdapter.execute_action with an active session.  backend_ok tells
\* whether every browser_service call made for this dispatch (the action itself
\* and the page snapshot that follows it) returns; when one raises, the
\* except clause turns it into a failed outcome.
ExecuteAction(a, backend_ok) ==
  LET done(text) == IF backend_ok THEN BrowserActionResult(TRUE, text)
                    ELSE BrowserActionResult(FALSE, "Error executing action")
  IN CASE a.action = "click" ->
            IF "element_id" \in a.parameters THEN done("Clicked element")
            ELSE BrowserActionResult(FALSE, "Missing element_id parameter for click action")
       [] a.action = "type" ->
            IF {"element_id", "text"} \subseteq a.parameters THEN done("Typed")
            ELSE BrowserActionResult(FALSE, "Missing element_id or text parameter for type action")
       [] a.action = "scroll" -> done("Scrolled")
       [] a.action = "goto" ->
            IF "url" \in a.parameters THEN done("Navigated to")
            ELSE BrowserActionResult(FALSE, "Missing url parameter for goto action")
       [] a.action = "wait" -> done("Waited")
       [] a.action = "stop" -> done("Stop action received")
       [] OTHER -> BrowserActionResult(FALSE, "Unknown action")

\* PlanAndExecuteAgent.run_task calls self._handle_error; neither
\* PlanAndExecuteAgent nor BrowserAgent defines that attribute.
HandleErrorDefined == FALSE

\* --------------------------------------------------------------- strings
\* A Python str is a sequence of one-character strings.
UpperToLower ==
  [ A |-> "a", B |-> "b", C |-> "c", D |-> "d", E |-> "e", F |-> "f", G |-> "g",
    H |-> "h", I |-> "i", J |-> "j", K |-> "k", L |-> "l", M |-> "m", N |-> "n",
    O |-> "o", P |-> "p", Q |-> "q", R |-> "r", S |-> "s", T |-> "t", U |-> "u",
    V |-> "v", W |-> "w", X |-> "x", Y |-> "y", Z |-> "z" ]

UpperLetters == DOMAIN UpperToLower

\* str.lower()
Lower(str) ==
  [ i \in 1..Len(str) |->
      IF str[i] \in UpperLetters THEN UpperToLower[str[i]] ELSE str[i] ]

\* `sub in str`
Contains(str, sub) ==
  \E i \in 0..(Len(str) - Len(sub)) : SubSeq(str, i + 1, i + Len(sub)) = sub

\* str.replace(tok, ""): every non-overlapping occurrence of tok, found
\* scanning from the left, is removed (tok is not empty).
RECURSIVE RemoveAll(_, _)
RemoveAll(str, tok) ==
  IF Len(str) < Len(tok) THEN str
  ELSE IF SubSeq(str, 1, Len(tok)) = tok
       THEN RemoveAll(SubSeq(str, Len(tok) + 1, Len(str)), tok)
       ELSE << str[1] >> \o RemoveAll(Tail(str), tok)

\* ---------------------------------------------------- security data model
\* ReflectionAgent.__init__ default of max_reflections.
DefaultMaxReflections == 3

\* The values of max_reflections a ReflectionAgent is constructed with.
ReflectionCaps == {1, DefaultMaxReflections}

\* SecurityConfig.__init__: the keyword list installed when none is configured.
DefaultSensitive ==
  { << "p","a","y","m","e","n","t" >>, << "p","u","r","c","h","a","s","e" >>,
    << "c","h","e","c","k","o","u","t" >>, << "l","o","g","i","n" >>,
    << "d","e","l","e","t","e" >>, << "r","e","m","o","v","e" >>,
    << "c","a","n","c","e","l" >>, << "2","f","a" >>,
    << "c","a","p","t","c","h","a" >> }

\* The sensitive_actions lists a SecurityConfig is constructed with: none,
\* one lower-case keyword, one keyword written with a capital.
KeywordConfigs ==
  { {}, { << "p","a","y" >> }, { << "L","o","g","i","n" >> } }

\* The action names check_action_allowed is called with.
ActionNames ==
  { << "c","h","e","c","k","o","u","t" >>,
    << "C","h","e","c","k","O","u","t" >>,
    << "l","o","g","i","n" >>,
    << "b","l","o","g","i","n","d","e","x" >>,
    << "P","A","Y" >>,
    << "g","o","t","o" >> }

\* The details arguments: None, an empty dict, a dict with entries.
DetailArgs == { "None", "{amount}" }

\* `if details is None: details = {}`
Details(arg) == IF arg = "None" THEN "{}" ELSE arg

\* What the human types at the confirmation prompt.
Replies ==
  { << "y" >>, << "Y" >>, << "y","e","s" >>, << "Y","E","S" >>,
    << "T","r","u","e" >>, << "1" >>, << "n" >>, << "y"," " >>, << >> }

\* request_confirmation: the forms the lowered reply is looked up in.
AffirmativeForms ==
  { << "y" >>, << "y","e","s" >>, << "t","r","u","e" >>, << "1" >> }

\* Variant of Affirmative: the reply is looked up as typed.
AffirmativeAsTyped(reply) == reply \in AffirmativeForms

\* `confirmation.lower() in ['y', 'yes', 'true', '1']`
Affirmative(reply) == Lower(reply) \in AffirmativeForms

\* Variant of HitlSkips: the enable_hitl test is missing.
HitlNeverSkips(enabled) == FALSE

\* handle_sensitive_action: `if not self.config.enable_hitl: return True`
HitlSkips(enabled) == ~enabled

\* handle_sensitive_action: any(sensitive in action.lower() for sensitive in
\* self.config.sensitive_actions).  Only the action name is lowered.
IsSensitive(action, keywords) ==
  \E sensitive \in keywords : Contains(Lower(action), sensitive)

\* Variant of Record: the ledger is assigned, not appended to.
RecordReplacing(ledger, entry) == << entry >>

\* check_action_allowed: self.action_history.append({...})
Record(ledger, entry) == Append(ledger, entry)

\* SecurityManager(config) right after construction.  last describes the most
\* recent check_action_allowed call (not program state).
NewGate(hitl, keywords) ==
  [ enable_hitl       |-> hitl,
    sensitive_actions |-> IF keywords = {} THEN DefaultSensitive ELSE keywords,
    action_history    |-> << >>,
    pc                |-> "idle",
    clock             |-> 0,
    calls             |-> << >>,
    last              |-> [ action |-> << >>, prompted |-> FALSE, reply |-> << >>,
                            replied |-> FALSE, returned |-> "none" ] ]

\* ------------------------------------------------------- credential vault
\* _encrypt_password / _decrypt_password: the marker put before the password.
Marker == << "e","n","c","r","y","p","t","e","d","_" >>

\* `f"encrypted_{password}"`
EncryptPassword(password) == Marker \o password

\* `encrypted_password.replace("encrypted_", "")`
DecryptPassword(encrypted_password) == RemoveAll(encrypted_password, Marker)

Services == { "shop", "mail" }

Usernames == { "user123", "" }

\* The passwords stored: plain ones, and ones that contain the marker text.
Passwords ==
  { << >>, << "p","w" >>, Marker, Marker \o << "p","w" >>,
    << "p","w" >> \o Marker \o << "x" >> }

\* A {username, password} dict; NoCredential stands for its absence (a
\* missing key of _credentials, the None that get_credential returns).
Credential(username, password) ==
  [ present |-> TRUE, username |-> username, password |-> password ]

NoCredential == [ present |-> FALSE, username |-> "", password |-> << >> ]

\* CredentialManager right after construction.  plain remembers what the
\* caller passed to store_credential, asked and answer the most recent
\* get_credential call and what it returned (not program state).
NewVault ==
  [ credentials |-> [ s \in Services |-> NoCredential ],
    plain       |-> [ s \in Services |-> NoCredential ],
    asked       |-> "<none>",
    answer      |-> NoCredential ]

\* ------------------------------------------------------------ AgentMemory
\* MemoryItem.  importance is in tenths (8 stands for 0.8); metadata is the
\* dict reduced to its "task" key: whether it is there, and its value.
MemoryItem(id, timestamp, content, task_key, task, importance) ==
  [ id |-> id, timestamp |-> timestamp, content |-> content,
    metadata |-> [ has_task |-> task_key, task |-> task ],
    importance |-> importance ]

\* AgentMemory.__init__ default of short_term_max_items.
DefaultMaxItems == 50

\* The items add_to_short_term is called with.
ShortItems ==
  { MemoryItem(id, 1, << "h","i" >>, FALSE, << >>, 10) : id \in { "s1", "s2", "s3" } }

\* The items save_memory is called with: two share an id, two share an
\* importance, the contents hold "task" in different letter cases or not at all.
LongItems ==
  { MemoryItem("m1", 1, << "T","a","s","k",":"," ","p","a","y" >>, TRUE, << "p","a","y" >>, 8),
    MemoryItem("m2", 2, << "T","A","S","K"," ","l","o","g" >>, FALSE, << >>, 5),
    MemoryItem("m3", 3, << "n","o","t","e" >>, FALSE, << >>, 8),
    MemoryItem("m1", 4, << "m","y"," ","t","a","s","k" >>, TRUE, << "f","l","y" >>, 5) }

\* The query strings search_memories is called with.
Queries == { << "T","a","S","k" >>, << >>, << "z" >> }

\* The ids and importances update_memory_importance is called with.
MemoryIds == { "m1", "m2", "m9" }

Importances == { 2, 8 }

\* `query_lower in memory.content.lower()`
Matches(item, query) == Contains(Lower(item.content), Lower(query))

\* The indices of the items of store that match query, in store order (the
\* loop filling results).
MatchingIndices(store, query) ==
  SelectSeq([ i \in 1..Len(store) |-> i ], LAMBDA i : Matches(store[i], query))

\* Variant of Outranks: ascending importance.
OutranksAscending(a, b) == a.importance < b.importance

\* The sort key with reverse=True: a is placed before b when its importance
\* is greater.
Outranks(a, b) == a.importance > b.importance

\* One index placed into a ranked list of indices: behind every index already
\* there that it does not outrank, so equal importances keep their order.
Placed(store, ranked, x) ==
  LET ahead == { k \in 1..Len(ranked) : ~Outranks(store[x], store[ranked[k]]) }
      at == IF ahead = {} THEN 0
            ELSE CHOOSE k \in ahead : \A j \in ahead : j <= k
  IN SubSeq(ranked, 1, at) \o << x >> \o SubSeq(ranked, at + 1, Len(ranked))

\* list.sort(key=importance, reverse=True) on a list of indices into store
\* (a stable sort).
RECURSIVE SortedByImportance(_, _)
SortedByImportance(store, idx) ==
  IF idx = << >> THEN << >>
  ELSE Placed(store, SortedByImportance(store, SubSeq(idx, 1, Len(idx) - 1)),
              idx[Len(idx)])

\* `results[:top_k]` for top_k >= 0
Take(seq, top_k) ==
  SubSeq(seq, 1, IF top_k < Len(seq) THEN top_k ELSE Len(seq))

\* LongTermMemory.search_memories: the indices into store of the items
\* returned, in the order returned.
SearchMemories(store, query, top_k) ==
  Take(SortedByImportance(store, MatchingIndices(store, query)), top_k)

\* Variant of StoreAfterSearch: the store itself is sorted by the search.
StoreSortedBySearch(store, query) ==
  LET order == SortedByImportance(store, [ i \in 1..Len(store) |-> i ])
  IN [ i \in 1..Len(store) |-> store[order[i]] ]

\* search_memories fills and sorts the local list `results`;
\* self.memories is only iterated.
StoreAfterSearch(store, query) == store

\* Variant of FirstWithId: without a match the first item is taken.
FirstWithIdOrHead(store, memory_id) ==
  IF \E i \in 1..Len(store) : store[i].id = memory_id
  THEN CHOOSE i \in 1..Len(store) :
         /\ store[i].id = memory_id
         /\ \A j \in 1..(i - 1) : store[j].id # memory_id
  ELSE IF Len(store) > 0 THEN 1 ELSE 0

\* update_memory_importance: the item the loop stops at (`break`), 0 when the
\* loop ends without a match.
FirstWithId(store, memory_id) ==
  IF \E i \in 1..Len(store) : store[i].id = memory_id
  THEN CHOOSE i \in 1..Len(store) :
         /\ store[i].id = memory_id
         /\ \A j \in 1..(i - 1) : store[j].id # memory_id
  ELSE 0

\* Variant of Evict: the newest item is removed.
EvictNewest(history) == SubSeq(history, 1, Len(history) - 1)

\* `self.short_term.history.pop(0)`
Evict(history) == Tail(history)

\* get_common_tasks: `await self.search_long_term("task", top_k=20)`
TaskQuery == << "t","a","s","k" >>

CommonTasksTopK == 20

\* `str(uuid.uuid4())`: the id generated by the n-th save; distinct saves get
\* distinct ids.
Uuid4(n) == ToString(n)

\* save_task_result_to_long_term:
\* f"Task: {task}\nResult: {result}\nSuccess: {success}"
TaskContent(task, result, success) ==
  << "T","a","s","k",":"," " >> \o task
    \o << "\n","R","e","s","u","l","t",":"," " >> \o result
    \o << "\n","S","u","c","c","e","s","s",":"," " >>
    \o (IF success THEN << "T","r","u","e" >> ELSE << "F","a","l","s","e" >>)

\* The MemoryItem save_task_result_to_long_term builds (uuid4 ids are taken
\* distinct: n is the ordinal of the save).
TaskResultItem(n, task, importance) ==
  MemoryItem(Uuid4(n), n, TaskContent(task, << "o","k" >>, TRUE), TRUE, task,
             importance)

\* The MemoryItem save_interaction_to_long_term builds; its metadata has no
\* "task" key.
InteractionItem(n, user_input, importance) ==
  MemoryItem(Uuid4(n), n, << "U","s","e","r",":"," " >> \o user_input
                     \o << "\n","A","g","e","n","t",":"," ","o","k",
                           "\n","P","a","g","e",":"," " >>,
             FALSE, << >>, importance)

\* The most recent memory call and what it returned (not program state).
NoCall ==
  [ op |-> "none", query |-> << >>, top_k |-> 0, found |-> << >>,
    items |-> << >>, repeated |-> FALSE, agreed |-> FALSE,
    id |-> "", importance |-> 0, hit |-> 0, tasks |-> {}, preferences |-> {},
    count |-> 0 ]

\* AgentMemory(short_term_max_items) right after construction.  added lists
\* every item passed to add_to_short_term (not program state).
NewMemory(short_term_max_items) ==
  [ max_items |-> short_term_max_items,
    history   |-> << >>,
    memories  |-> << >>,
    added     |-> << >>,
    last      |-> NoCall ]

\* ------------------------------------------- AgentMemory, every operation
\* Defaults of save_interaction_to_long_term and save_task_result_to_long_term
\* (tenths).
DefaultInteractionImportance == 5

DefaultTaskImportance == 8

\* Default top_k of AgentMemory.search_long_term; top_k and query of
\* get_user_preferences.
DefaultTopK == 5

PreferencesTopK == 10

PreferenceQuery == << "p","r","e","f","e","r","e","n","c","e" >>

\* A caller-built MemoryItem whose metadata has a "preferences" mapping (a set
\* of << key, value >> pairs, one per key) and no "task" key.
PreferenceItem(id, timestamp, preferences, importance) ==
  [ id |-> id, timestamp |-> timestamp,
    content |-> << "P","r","e","f","e","r","e","n","c","e" >>,
    metadata |-> [ has_task |-> FALSE, task |-> << >>, preferences |-> preferences ],
    importance |-> importance ]

\* The caller-built items add_to_long_term is called with.  MemoryItem checks
\* the types of its fields only: two of the items carry the same id, and one
\* an importance of 1.5.
StoreItems ==
  { MemoryItem("m1", 1, << "T","a","s","k" >>, TRUE, << "p","a","y" >>, 8),
    MemoryItem("m1", 2, << "n","o","t","e" >>, FALSE, << >>, 5),
    PreferenceItem("m2", 3, { << "theme", "dark" >> }, 15) }

\* The importances update_memory_importance is called with on such a store:
\* the parameter is a float, 1.5 among its values.
AnyImportances == { 2, 15 }

\* Variant of SaveTo: the item is put in front of the stored ones.
SaveToFront(store, item) == << item >> \o store

\* `self.memories.append(item)`
SaveTo(store, item) == Append(store, item)

\* `memory.metadata.get("preferences", {})`
PreferencesOf(item) ==
  IF "preferences" \in DOMAIN item.metadata THEN item.metadata.preferences ELSE {}

\* `preferences.update(d)`: the keys of d are set, the other keys are kept.
DictUpdate(preferences, d) ==
  { p \in preferences : \A q \in d : q[1] # p[1] } \cup d

\* get_user_preferences: the loop over the memories found, in the order found.
RECURSIVE CollectPreferences(_, _)
CollectPreferences(store, found) ==
  IF found = << >> THEN {}
  ELSE LET m == store[found[Len(found)]]
           before == CollectPreferences(store, SubSeq(found, 1, Len(found) - 1))
       IN IF Matches(m, PreferenceQuery)
          THEN DictUpdate(before, PreferencesOf(m))
          ELSE before

\* ------------------------------------------------- adapter, driven directly
\* The ActionModels execute_action is called with, well-formed and not.  The
\* last one stands for an action kind outside the Literal of ActionModel.
AdapterActions ==
  { Act("click", {"element_id"}), Act("click", {}),
    Act("type", {"element_id", "text"}), Act("type", {"element_id"}),
    Act("type", {"text"}), Act("type", {}),
    Act("scroll", {}), Act("scroll", {"direction"}),
    Act("goto", {"url"}), Act("goto", {}),
    Act("wait", {}), Act("stop", {}),
    Act("hover", {"element_id"}) }

\* The most recent call on the adapter: whether it raised ("none",
\* "no_session", "backend"), whether it called browser_service, what
\* execute_action returned, and the phase the adapter was in when called
\* (not program state).
AdapterCall(op, a, raised, backend, out, phase) ==
  [ op |-> op, action |-> a, raised |-> raised, backend |-> backend,
    outcome |-> out, phase_before |-> phase ]

\* n counts the calls made.  phase follows the calls that returned: "new"
\* before the first start_session, "open" after a start_session, "closed"
\* after an end_session.
NewAdapter ==
  [ n |-> 0, phase |-> "new",
    last |-> AdapterCall("none", NoAction, "none", FALSE, NoOutcome, "new") ]

\* Variant of NoSession: the guard is missing.
NoSessionNever(active) == FALSE

\* `if not self.session_active: raise RuntimeError(...)`
NoSession(active) == ~active

\* execute_action calls browser_service for this action: the branches that
\* do are the ones that can return success.
ReachesBackend(a) == ExecuteAction(a, TRUE).success

\* ------------------------------------ concurrent run_task calls (reactive)
\* The answers of the Reasoner in the concurrent runs.
PoolIntents == { Act("goto", {"url"}), Act("stop", {}) }

\* `history=self.history` in an AgentOutput: the result refers to the
\* AgentHistory object of instance i, it does not copy it.
Ref(i) == [ history_of |-> i ]

\* An entry of a history together with the run_task call that appended it
\* (the call is not part of the program's data).
PoolEntry(c, a, out) == [ entry |-> Entry(a, out), by |-> c ]

\* A run_task coroutine that has not begun.
NewCoroutine ==
  [ pc |-> "new", step |-> 0, action |-> NoAction, result |-> NoResult,
    no_session_at |-> "none" ]

\* Two run_task calls, on one BrowserAgent (shared) or on one BrowserAgent
\* each, right after construction.  active[i] and history[i] are
\* browser.session_active and self.history of instance i.
NewPool(shared) ==
  [ shared  |-> shared,
    active  |-> [ i \in 1..2 |-> FALSE ],
    history |-> [ i \in 1..2 |-> << >> ],
    co      |-> [ c \in 1..2 |-> NewCoroutine ] ]

\* The instance run_task call c runs on.
Inst(p, c) == IF p.shared THEN 1 ELSE c

\* Variant of ActiveAfterCreate: start_session leaves the flag as it was.
ActiveAfterCreateUnset == FALSE

\* start_session: `self.session_active = True` after create_session returned
ActiveAfterCreate == TRUE

\* ---------------------------------------------------------------- state
VARIABLES
  strategy,          \* "reactive" | "plan" | "reflection": the agent's class
  pc,                \* position of run_task
  run,               \* number of run_task invocations begun on this instance
  session_active,    \* BrowserUseAdapter.session_active
  history,           \* self.history (AgentHistory), created in __init__
  result,            \* the AgentOutput of the return statement reached
  step,              \* loop variable (step / step_num)
  plan,              \* plan.steps
  action_result,     \* the Reasoner's (or plan step's) ActionModel of this step
  execution_result,  \* outcome of dispatching action_result
  verdict,           \* reflection_result.is_correct: "none" | "correct" | "incorrect"
  response,          \* the Corrector's ActionModel
  correction_result, \* outcome of dispatching response
  obs,               \* observation record of the run (calls made, not program state)
  max_reflections,   \* ReflectionAgent.max_reflections
  gate,              \* SecurityManager: config, HumanInTheLoop, action_history
  vault,             \* CredentialManager._credentials
  memory,            \* AgentMemory: short_term and long_term
  adapter,           \* a BrowserUseAdapter driven directly: its calls and their outcomes
  pool               \* two run_task calls running concurrently, and their instances

vars == << strategy, pc, run, session_active, history, result, step, plan,
           action_result, execution_result, verdict, response,
           correction_result, obs, max_reflections, gate, vault,
           memory, adapter, pool >>

\* The agent's own state, and the state run_task never touches.
agentvars == << strategy, pc, run, session_active, history, result, step, plan,
                action_result, execution_result, verdict, response,
                correction_result, obs, max_reflections >>

\* The agent's state without the adapter's flag.
runvars == << strategy, pc, run, history, result, step, plan, action_result,
              execution_result, verdict, response, correction_result, obs,
              max_reflections >>

securityvars == << gate, vault >>

storevars == << memory, adapter, pool >>

\* Observation record: counts of the external calls of the current run_task
\* invocation, and marks used to state the properties.
NewObs(h) ==
  [ created      |-> FALSE,   \* create_session succeeded in this run
    closeCalls   |-> 0,       \* close_session calls of this run
    nObserve     |-> 0,       \* run_task-level get_current_page_state calls
    nLLM         |-> 0,       \* get_completion calls
    nDispatch    |-> 0,       \* execute_action calls
    nPrimary     |-> 0,       \* execute_action calls for a Reasoner / plan action
    nCorrOK      |-> 0,       \* corrections whose execution succeeded
    fault        |-> FALSE,   \* the observe step or an LLM call raised
    nReason      |-> 0,       \* Reasoner calls
    stopChosen   |-> FALSE,   \* the Reasoner answered stop
    stopDispatched |-> FALSE, \* the Reasoner's stop was dispatched
    afterStop    |-> 0,       \* observe / Reasoner / dispatch calls after the stop dispatch
    runBase      |-> Len(h),  \* Len(history) when run_task was entered
    stepBase     |-> Len(h),  \* Len(history) when the current step began
    stepCorr     |-> 0,       \* Corrector calls of the current step
    nCorr        |-> 0,       \* Corrector calls of the run
    backendFault |-> FALSE,   \* a browser_service call raised inside execute_action
    afterBackendFault |-> 0,  \* observe / dispatch calls after that
    primaryOrd   |-> 0,       \* ordinal of the dispatch of the Reasoner's action
    ords         |-> << >>,   \* per entry appended in this run: ordinal of its dispatch
    failedStep   |-> -1 ]     \* step_num of the plan step whose execution failed

\* The agent after construction.
AgentInit ==
  /\ strategy \in {"reactive", "plan", "reflection"}
  /\ pc = "idle"
  /\ run = 0
  /\ session_active = FALSE
  /\ history = <<>>
  /\ result = NoResult
  /\ step = 0
  /\ plan = <<>>
  /\ action_result = NoAction
  /\ execution_result = NoOutcome
  /\ verdict = "none"
  /\ response = NoAction
  /\ correction_result = NoOutcome
  /\ obs = NewObs(<<>>)
  /\ max_reflections \in (IF strategy = "reflection" THEN ReflectionCaps
                          ELSE {DefaultMaxReflections})

\* The agent, and a SecurityManager() constructed next to it.
Init ==
  /\ AgentInit
  /\ gate = NewGate(TRUE, {})
  /\ vault = NewVault
  /\ memory = NewMemory(DefaultMaxItems)
  /\ adapter = NewAdapter
  /\ pool = NewPool(FALSE)

\* ----------------------------------------------------------- operations
Bump(o, f) == [o EXCEPT ![f] = @ + 1]

\* Variant of IsStop: no action kind ends the loop.
IsStopNever(a) == FALSE

\* `if action_result.action.action == "stop": break`
IsStop(a) == a.action = "stop"

\* Variant of NeedsCorrection: the Corrector is asked on every step.
NeedsCorrectionAlways(v) == v \in {"correct", "incorrect"}

\* Variant of NeedsCorrection: the Corrector is asked only while fewer than
\* max_reflections corrections were made.
NeedsCorrectionCapped(v) == v = "incorrect" /\ obs.nCorr < max_reflections

\* `if not reflection_result.is_correct:`
NeedsCorrection(v) == v = "incorrect"

\* Variant of CorrectionRecorded: the corrected action is recorded whatever
\* its outcome.
CorrectionRecordedAlways(out) == TRUE

\* `if correction_result.success:` guards the second add_step
CorrectionRecorded(out) == out.success

\* Variant of ActiveAfterClose: the flag is left set after close_session.
ActiveAfterCloseStale == TRUE

\* end_session: `self.session_active = False` after close_session returned
ActiveAfterClose == FALSE

\* A dispatch counted in the observation record; a dispatch made after the
\* Reasoner's stop was dispatched is counted in afterStop as well.
Seen(o, f) ==
  LET b == IF o.backendFault THEN Bump(o, "afterBackendFault") ELSE o
  IN IF o.stopDispatched THEN Bump(Bump(b, f), "afterStop") ELSE Bump(b, f)

\* execute_action reached a browser_service call for this action and the call
\* raised (the except clause of execute_action caught it).
BackendRaised(a, backend_ok) == ~backend_ok /\ ExecuteAction(a, TRUE).success

\* The dispatch just counted in o is noted: whether the backend raised in it.
Dispatched(o, a, backend_ok) ==
  [o EXCEPT !.backendFault = @ \/ BackendRaised(a, backend_ok)]

\* The entry just appended belongs to the dispatch with ordinal n.
Logged(o, n) == [o EXCEPT !.ords = Append(@, n)]

\* Variant of AddStep: the entry is put in front of the earlier ones.
AddStepInFront(h, e) == << e >> \o h

\* AgentHistory.add_step
AddStep(h, e) == Append(h, e)

\* Variant of MoreSteps: one iteration more than max_steps.
MoreStepsAndOne(i) == i < max_steps

\* `for step in range(self.max_steps)`: after iteration i another one follows.
MoreSteps(i) == i + 1 < max_steps

\* run_task is entered: locals are fresh, self.history is whatever the
\* instance holds.
Enter ==
  /\ pc' = "start"
  /\ run' = run + 1
  /\ result' = NoResult
  /\ step' = 0
  /\ plan' = <<>>
  /\ action_result' = NoAction
  /\ execution_result' = NoOutcome
  /\ verdict' = "none"
  /\ response' = NoAction
  /\ correction_result' = NoOutcome
  /\ obs' = NewObs(history)
  /\ UNCHANGED << securityvars, storevars, max_reflections, strategy, session_active, history >>

\* A caller invokes run_task on the freshly constructed instance.
RunTask ==
  /\ pc = "idle"
  /\ Enter

\* A caller invokes run_task again on the same instance, after the previous
\* invocation returned or raised.
RunTaskAgain ==
  /\ pc \in {"returned", "raised"}
  /\ run < MaxRuns
  /\ Enter

\* `await self.browser.start_session()`: create_session returns or raises.
\* On return the first loop iteration (or the Planner call) is next.
StartSession ==
  /\ pc = "start"
  /\ \E ok \in BOOLEAN :
       IF ok
       THEN /\ session_active' = TRUE
            /\ obs' = [obs EXCEPT !.created = TRUE]
            /\ IF strategy = "plan"
               THEN pc' = "plan" /\ result' = result
               ELSE IF 0 < max_steps
                    THEN pc' = "observe" /\ result' = result
                    ELSE pc' = "finally" /\ result' = SuccessOutput(history)
       ELSE /\ session_active' = session_active
            /\ obs' = obs
            /\ pc' = "finally"
            /\ result' = ErrorOutput(history)
  /\ UNCHANGED << securityvars, storevars, max_reflections, strategy, run, history, step, plan, action_result,
                  execution_result, verdict, response, correction_result >>

\* `current_state = await self.browser.get_current_page_state()` at the top of
\* an iteration.  Without an active session the adapter raises before calling
\* the backend; otherwise the backend returns or raises.  In a plan run the
\* loop variable is the plan step.
Observe ==
  /\ pc = "observe"
  /\ \E ok \in BOOLEAN :
       LET o == [Seen(obs, "nObserve") EXCEPT !.stepBase = Len(history), !.stepCorr = 0]
       IN IF session_active /\ ok
          THEN /\ pc' = IF strategy = "plan" THEN "execute" ELSE "think"
               /\ obs' = o
               /\ result' = result
          ELSE /\ pc' = "finally"
               /\ obs' = [o EXCEPT !.fault = TRUE]
               /\ result' = ErrorOutput(history)
  /\ action_result' = IF strategy = "plan" THEN plan[step + 1] ELSE NoAction
  /\ execution_result' = NoOutcome
  /\ verdict' = "none"
  /\ response' = NoAction
  /\ correction_result' = NoOutcome
  /\ UNCHANGED << securityvars, storevars, max_reflections, strategy, run, session_active, history, step, plan >>

\* `_think_and_act`: one get_completion call answering an ActionModel, or raising.
Think ==
  /\ pc = "think"
  /\ \/ \E r \in Intents :
          /\ action_result' = r
          /\ pc' = "execute"
          /\ obs' = [Seen(Bump(obs, "nLLM"), "nReason") EXCEPT !.stopChosen = IsStop(r)]
          /\ result' = result
     \/ /\ action_result' = action_result
        /\ pc' = "finally"
        /\ obs' = [Seen(Bump(obs, "nLLM"), "nReason") EXCEPT !.fault = TRUE]
        /\ result' = ErrorOutput(history)
  /\ UNCHANGED << securityvars, storevars, max_reflections, strategy, run, session_active, history, step, plan,
                  execution_result, verdict, response, correction_result >>

\* Reactive run, steps 3-5 of an iteration: dispatch, add_step, stop check,
\* then the next iteration or the return after the loop.
Execute ==
  /\ pc = "execute"
  /\ strategy = "reactive"
  /\ IF ~session_active
     THEN /\ pc' = "finally"
          /\ result' = ErrorOutput(history)
          /\ UNCHANGED << history, step, execution_result, obs >>
     ELSE \E backend_ok \in BOOLEAN :
            LET out == ExecuteAction(action_result, backend_ok)
                h == AddStep(history, Entry(action_result, out))
                d == Dispatched(Bump(Seen(obs, "nDispatch"), "nPrimary"),
                                action_result, backend_ok)
                o == Logged(d, d.nDispatch)
            IN /\ execution_result' = out
               /\ history' = h
               /\ obs' = [o EXCEPT !.stopDispatched = IsStop(action_result)]
               /\ IF IsStop(action_result)
                  THEN pc' = "finally" /\ step' = step /\ result' = SuccessOutput(h)
                  ELSE IF MoreSteps(step)
                       THEN pc' = "observe" /\ step' = step + 1 /\ result' = result
                       ELSE pc' = "finally" /\ step' = step /\ result' = SuccessOutput(h)
  /\ UNCHANGED << securityvars, storevars, max_reflections, strategy, run, session_active, plan, action_result, verdict,
                  response, correction_result >>

\* Reflection run, step 3: dispatch the Reasoner's action.  The outcome is
\* held in execution_result; add_step comes only after the Reflector call.
ExecuteReflection ==
  /\ pc = "execute"
  /\ strategy = "reflection"
  /\ IF ~session_active
     THEN /\ pc' = "finally"
          /\ result' = ErrorOutput(history)
          /\ UNCHANGED << execution_result, obs >>
     ELSE \E backend_ok \in BOOLEAN :
            /\ execution_result' = ExecuteAction(action_result, backend_ok)
            /\ obs' = LET d == Dispatched(Bump(Seen(obs, "nDispatch"), "nPrimary"),
                                           action_result, backend_ok)
                       IN [d EXCEPT !.stopDispatched = IsStop(action_result),
                                    !.primaryOrd = d.nDispatch]
            /\ pc' = "reflect"
            /\ result' = result
  /\ UNCHANGED << securityvars, storevars, max_reflections, strategy, run, session_active, history, step, plan,
                  action_result, verdict, response, correction_result >>

\* Reflection run, steps 4-7: `_reflect_on_action` (one get_completion call),
\* then add_step, the stop check and the is_correct test.
Reflect ==
  /\ pc = "reflect"
  /\ \/ \E v \in {"correct", "incorrect"} :
          LET h == AddStep(history, Entry(action_result, execution_result))
          IN /\ verdict' = v
             /\ history' = h
             /\ obs' = Logged(Bump(obs, "nLLM"), obs.primaryOrd)
             /\ IF IsStop(action_result)
                THEN pc' = "finally" /\ step' = step /\ result' = SuccessOutput(h)
                ELSE IF NeedsCorrection(v)
                     THEN pc' = "correct" /\ step' = step /\ result' = result
                     ELSE IF MoreSteps(step)
                          THEN pc' = "observe" /\ step' = step + 1 /\ result' = result
                          ELSE pc' = "finally" /\ step' = step /\ result' = SuccessOutput(h)
     \/ /\ pc' = "finally"
        /\ obs' = [Bump(obs, "nLLM") EXCEPT !.fault = TRUE]
        /\ result' = ErrorOutput(history)
        /\ UNCHANGED << verdict, history, step >>
  /\ UNCHANGED << securityvars, storevars, max_reflections, strategy, run, session_active, plan, action_result,
                  execution_result, response, correction_result >>

\* `_correct_action`, first await: one get_completion call answering the
\* corrected ActionModel, or raising.
Correct ==
  /\ pc = "correct"
  /\ \/ \E r \in Intents :
          /\ response' = r
          /\ pc' = "correct_exec"
          /\ obs' = Bump(Bump(Bump(obs, "nLLM"), "stepCorr"), "nCorr")
          /\ result' = result
     \/ /\ response' = response
        /\ pc' = "finally"
        /\ obs' = [Bump(Bump(Bump(obs, "nLLM"), "stepCorr"), "nCorr") EXCEPT !.fault = TRUE]
        /\ result' = ErrorOutput(history)
  /\ UNCHANGED << securityvars, storevars, max_reflections, strategy, run, session_active, history, step, plan,
                  action_result, execution_result, verdict, correction_result >>

\* `_correct_action`, second await: dispatch the corrected action; back in
\* run_task, add_step when it succeeded; then the next iteration or the
\* return after the loop.
CorrectExecute ==
  /\ pc = "correct_exec"
  /\ IF ~session_active
     THEN /\ pc' = "finally"
          /\ result' = ErrorOutput(history)
          /\ UNCHANGED << history, step, correction_result, obs >>
     ELSE \E backend_ok \in BOOLEAN :
            LET out == ExecuteAction(response, backend_ok)
                rec == CorrectionRecorded(out)
                h == IF rec THEN AddStep(history, Entry(response, out)) ELSE history
                d == Dispatched(Seen(obs, "nDispatch"), response, backend_ok)
                o == IF rec THEN Logged(d, d.nDispatch) ELSE d
            IN /\ correction_result' = out
               /\ history' = h
               /\ obs' = IF out.success THEN Bump(o, "nCorrOK") ELSE o
               /\ IF MoreSteps(step)
                  THEN pc' = "observe" /\ step' = step + 1 /\ result' = result
                  ELSE pc' = "finally" /\ step' = step /\ result' = SuccessOutput(h)
  /\ UNCHANGED << securityvars, storevars, max_reflections, strategy, run, session_active, plan, action_result,
                  execution_result, verdict, response >>

\* `plan = await self._create_plan(task)`: one get_completion call answering a
\* Plan, or raising; then the first iteration over plan.steps, or the return
\* after the loop when the plan is empty.
CreatePlan ==
  /\ pc = "plan"
  /\ \/ \E p \in Plans :
          /\ plan' = p
          /\ obs' = Bump(obs, "nLLM")
          /\ IF Len(p) > 0
             THEN pc' = "observe" /\ result' = result
             ELSE pc' = "finally" /\ result' = SuccessOutput(history)
     \/ /\ plan' = plan
        /\ pc' = "finally"
        /\ obs' = [Bump(obs, "nLLM") EXCEPT !.fault = TRUE]
        /\ result' = ErrorOutput(history)
  /\ UNCHANGED << securityvars, storevars, max_reflections, strategy, run, session_active, history, step, action_result,
                  execution_result, verdict, response, correction_result >>

\* Plan run, one iteration after the observation: dispatch the plan step,
\* add_step, and on a failed outcome the call of self._handle_error.  With
\* the attribute undefined the call raises AttributeError, which the except
\* clause of run_task turns into the error result.
PlanExecute ==
  /\ pc = "execute"
  /\ strategy = "plan"
  /\ IF ~session_active
     THEN /\ pc' = "finally"
          /\ result' = ErrorOutput(history)
          /\ UNCHANGED << history, step, execution_result, obs >>
     ELSE \E backend_ok \in BOOLEAN, recovered \in BOOLEAN :
            LET out == ExecuteAction(action_result, backend_ok)
                h == AddStep(history, Entry(action_result, out))
                d == Dispatched(Bump(Seen(obs, "nDispatch"), "nPrimary"),
                                action_result, backend_ok)
                o == Logged(d, d.nDispatch)
                continue == IF step + 1 < Len(plan)
                            THEN pc' = "observe" /\ step' = step + 1 /\ result' = result
                            ELSE pc' = "finally" /\ step' = step /\ result' = SuccessOutput(h)
            IN /\ execution_result' = out
               /\ history' = h
               /\ obs' = [o EXCEPT !.stopDispatched = @ \/ IsStop(action_result),
                                   !.failedStep = IF out.success THEN @ ELSE step]
               /\ IF out.success
                  THEN continue
                  ELSE IF ~HandleErrorDefined
                       THEN pc' = "finally" /\ step' = step /\ result' = ErrorOutput(h)
                       ELSE IF recovered
                            THEN continue
                            ELSE /\ pc' = "finally" /\ step' = step
                                 /\ result' = FailedStepOutput(step, h)
  /\ UNCHANGED << securityvars, storevars, max_reflections, strategy, run, session_active, plan, action_result, verdict,
                  response, correction_result >>

\* `finally: await self.browser.end_session()`: close_session is called only
\* while session_active; when it raises, the exception leaves run_task in place
\* of the return value and session_active keeps its value.
EndSession ==
  /\ pc = "finally"
  /\ IF session_active
     THEN \E ok \in BOOLEAN :
            /\ obs' = Bump(obs, "closeCalls")
            /\ IF ok
               THEN /\ session_active' = ActiveAfterClose
                    /\ pc' = "returned"
                    /\ result' = result
               ELSE /\ session_active' = session_active
                    /\ pc' = "raised"
                    /\ result' = NoResult
     ELSE /\ pc' = "returned"
          /\ UNCHANGED << session_active, result, obs >>
  /\ UNCHANGED << securityvars, storevars, max_reflections, strategy, run, history, step, plan, action_result,
                  execution_result, verdict, response, correction_result >>

Next ==
  \/ RunTask
  \/ StartSession
  \/ Observe
  \/ Think
  \/ Execute
  \/ ExecuteReflection
  \/ Reflect
  \/ Correct
  \/ CorrectExecute
  \/ CreatePlan
  \/ PlanExecute
  \/ EndSession

\* One run_task invocation on a fresh instance.
Spec == Init /\ [][Next]_vars

\* One run_task invocation in which every external call that is awaited
\* eventually returns or raises, so that the step waiting for it is taken.
SpecLive == Spec /\ WF_vars(Next)

NextReuse ==
  \/ Next
  \/ RunTaskAgain

\* Up to MaxRuns consecutive run_task invocations on one instance.
SpecReuse == Init /\ [][NextReuse]_vars

\* ------------------------------------------------------- SecurityManager
\* Bound on the number of check_action_allowed calls.
MaxChecks == 2

\* check_action_allowed(action, details): the ledger entry is appended, then
\* handle_sensitive_action answers at once (HITL disabled, or no keyword
\* matches) or request_confirmation prompts and waits for the human.
CheckActionAllowed ==
  /\ gate.pc = "idle"
  /\ Len(gate.calls) < MaxChecks
  /\ \E action \in ActionNames, arg \in DetailArgs :
       LET entry == [ action |-> action, details |-> Details(arg),
                      timestamp |-> gate.clock ]
           ask == /\ ~HitlSkips(gate.enable_hitl)
                  /\ IsSensitive(action, gate.sensitive_actions)
       IN gate' = [ gate EXCEPT
                      !.action_history = Record(@, entry),
                      !.clock = @ + 1,
                      !.calls = Append(@, [ action |-> action, arg |-> arg ]),
                      !.pc = IF ask THEN "waiting" ELSE "idle",
                      !.last = [ action |-> action, prompted |-> ask,
                                 reply |-> << >>, replied |-> FALSE,
                                 returned |-> IF ask THEN "none" ELSE "true" ] ]
  /\ UNCHANGED << agentvars, vault, storevars >>

\* request_confirmation: the human's line arrives within timeout_seconds.
HumanReplies ==
  /\ gate.pc = "waiting"
  /\ \E confirmation \in Replies :
       gate' = [ gate EXCEPT
                   !.pc = "idle",
                   !.last.reply = confirmation,
                   !.last.replied = TRUE,
                   !.last.returned = IF Affirmative(confirmation)
                                     THEN "true" ELSE "false" ]
  /\ UNCHANGED << agentvars, vault, storevars >>

\* request_confirmation: asyncio.TimeoutError, `return False`.
HumanTimeout ==
  /\ gate.pc = "waiting"
  /\ gate' = [ gate EXCEPT !.pc = "idle", !.last.returned = "false" ]
  /\ UNCHANGED << agentvars, vault, storevars >>

\* A SecurityManager constructed with any of the configurations.
InitGate ==
  /\ AgentInit
  /\ strategy = "reactive"
  /\ gate \in { NewGate(hitl, keywords) :
                  hitl \in BOOLEAN, keywords \in KeywordConfigs }
  /\ vault = NewVault
  /\ memory = NewMemory(DefaultMaxItems)
  /\ adapter = NewAdapter
  /\ pool = NewPool(FALSE)

NextGate ==
  \/ CheckActionAllowed
  \/ HumanReplies
  \/ HumanTimeout

\* Calls of check_action_allowed on one SecurityManager.
SpecGate == InitGate /\ [][NextGate]_vars

\* ----------------------------------------------------- CredentialManager
\* store_credential(service, username, password)
StoreCredential ==
  /\ \E service \in Services, username \in Usernames, password \in Passwords :
       vault' = [ vault EXCEPT
                    !.credentials[service] =
                        Credential(username, EncryptPassword(password)),
                    !.plain[service] = Credential(username, password),
                    !.asked = "<none>",
                    !.answer = NoCredential ]
  /\ UNCHANGED << agentvars, gate, storevars >>

\* get_credential(service)
GetCredential ==
  /\ \E service \in Services :
       LET cred == vault.credentials[service]
       IN vault' = [ vault EXCEPT
                       !.asked = service,
                       !.answer = IF cred.present
                                  THEN Credential(cred.username,
                                                  DecryptPassword(cred.password))
                                  ELSE NoCredential ]
  /\ UNCHANGED << agentvars, gate, storevars >>

InitVault ==
  /\ AgentInit
  /\ strategy = "reactive"
  /\ gate = NewGate(TRUE, {})
  /\ vault = NewVault
  /\ memory = NewMemory(DefaultMaxItems)
  /\ adapter = NewAdapter
  /\ pool = NewPool(FALSE)

NextVault ==
  \/ StoreCredential
  \/ GetCredential

\* Calls of store_credential and get_credential on one CredentialManager.
SpecVault == InitVault /\ [][NextVault]_vars

\* ------------------------------------------------------ short-term memory
\* Bounds on the capacity and on the number of add_to_short_term calls.
MaxItems == 2

MaxAdds == 4

\* AgentMemory.add_to_short_term(item)
AddToShortTerm ==
  /\ Len(memory.added) < MaxAdds
  /\ \E item \in ShortItems :
       LET h == Append(memory.history, item)
       IN memory' = [ memory EXCEPT
                        !.history = IF Len(h) > memory.max_items THEN Evict(h) ELSE h,
                        !.added = Append(@, item),
                        !.last = [ NoCall EXCEPT !.op = "add" ] ]
  /\ UNCHANGED << agentvars, securityvars, adapter, pool >>

\* AgentMemory(short_term_max_items = 0 .. MaxItems)
InitShort ==
  /\ AgentInit
  /\ strategy = "reactive"
  /\ gate = NewGate(TRUE, {})
  /\ vault = NewVault
  /\ memory \in { NewMemory(n) : n \in 0..MaxItems }
  /\ adapter = NewAdapter
  /\ pool = NewPool(FALSE)

NextShort == AddToShortTerm

\* Calls of add_to_short_term on one AgentMemory.
SpecShort == InitShort /\ [][NextShort]_vars

\* Bound on the count get_recent_history is called with.
MaxCount == 3

\* Python `seq[start:]`: a negative start counts from the end, and a start
\* outside the list is clamped to its ends.
SliceFrom(seq, start) ==
  LET n == Len(seq)
      from == IF start < 0
              THEN (IF start + n < 0 THEN 0 ELSE start + n)
              ELSE (IF start > n THEN n ELSE start)
  IN SubSeq(seq, from + 1, n)

\* AgentMemory.get_recent_history(count): `self.short_term.history[-count:]`
GetRecentHistory ==
  /\ \E count \in 0..MaxCount :
       memory' = [ memory EXCEPT
                     !.last = [ NoCall EXCEPT
                                  !.op = "recent",
                                  !.count = count,
                                  !.items = SliceFrom(memory.history, 0 - count) ] ]
  /\ UNCHANGED << agentvars, securityvars, adapter, pool >>

NextRecent ==
  \/ AddToShortTerm
  \/ GetRecentHistory

\* Calls of add_to_short_term and get_recent_history on one AgentMemory.
SpecRecent == InitShort /\ [][NextRecent]_vars

\* ------------------------------------------------------- long-term memory
\* Bounds on the number of stored items and on top_k.
MaxMemories == 3

MaxTopK == 3

\* LongTermMemory.save_memory(item)
SaveMemory ==
  /\ Len(memory.memories) < MaxMemories
  /\ \E item \in LongItems :
       memory' = [ memory EXCEPT
                     !.memories = Append(@, item),
                     !.last = [ NoCall EXCEPT !.op = "save" ] ]
  /\ UNCHANGED << agentvars, securityvars, adapter, pool >>

\* LongTermMemory.search_memories(query, top_k)
SearchLongTerm ==
  /\ \E query \in Queries, top_k \in 0..MaxTopK :
       LET found == SearchMemories(memory.memories, query, top_k)
           items == [ n \in 1..Len(found) |-> memory.memories[found[n]] ]
       IN memory' = [ memory EXCEPT
                        !.memories = StoreAfterSearch(@, query),
                        !.last = [ NoCall EXCEPT
                                     !.op = "search",
                                     !.query = query,
                                     !.top_k = top_k,
                                     !.found = found,
                                     !.items = items,
                                     !.repeated = /\ memory.last.op = "search"
                                                  /\ memory.last.query = query
                                                  /\ memory.last.top_k = top_k,
                                     !.agreed = items = memory.last.items ] ]
  /\ UNCHANGED << agentvars, securityvars, adapter, pool >>

\* LongTermMemory.update_memory_importance(memory_id, importance)
UpdateMemoryImportance ==
  /\ \E memory_id \in MemoryIds, importance \in Importances :
       LET i == FirstWithId(memory.memories, memory_id)
       IN memory' = [ memory EXCEPT
                        !.memories = IF i = 0 THEN @
                                     ELSE [ @ EXCEPT ![i].importance = importance ],
                        !.last = [ NoCall EXCEPT
                                     !.op = "update",
                                     !.id = memory_id,
                                     !.importance = importance,
                                     !.hit = i ] ]
  /\ UNCHANGED << agentvars, securityvars, adapter, pool >>

\* AgentMemory() with an empty long-term store.
InitLong ==
  /\ AgentInit
  /\ strategy = "reactive"
  /\ gate = NewGate(TRUE, {})
  /\ vault = NewVault
  /\ memory = NewMemory(DefaultMaxItems)
  /\ adapter = NewAdapter
  /\ pool = NewPool(FALSE)

NextSearch ==
  \/ SaveMemory
  \/ SearchLongTerm

\* Calls of save_memory and search_memories on one LongTermMemory.
SpecSearch == InitLong /\ [][NextSearch]_vars

NextUpdate ==
  \/ SaveMemory
  \/ UpdateMemoryImportance

\* Calls of save_memory and update_memory_importance on one LongTermMemory.
SpecUpdate == InitLong /\ [][NextUpdate]_vars

\* -------------------------------------------------------- get_common_tasks
\* Bound on the number of items in the stores get_common_tasks is called on.
MaxTaskMemories == 21

\* The long-term store after n saves: results of the task "pay" saved with
\* the default importance 0.8, and at position k one other item: a result of
\* the task "fly", or an interaction whose text mentions a task.
TaskStore(n, k, odd, imp) ==
  [ i \in 1..n |->
      IF i # k THEN TaskResultItem(i, << "p","a","y" >>, 8)
      ELSE IF odd = "task" THEN TaskResultItem(i, << "f","l","y" >>, imp)
      ELSE InteractionItem(i, << "n","o"," ","T","a","s","k" >>, imp) ]

\* AgentMemory.get_common_tasks()
GetCommonTasks ==
  /\ LET found == SearchMemories(memory.memories, TaskQuery, CommonTasksTopK)
         tasks == { memory.memories[found[n]].metadata.task :
                      n \in { m \in 1..Len(found) :
                                memory.memories[found[m]].metadata.has_task } }
     IN memory' = [ memory EXCEPT
                      !.memories = StoreAfterSearch(@, TaskQuery),
                      !.last = [ NoCall EXCEPT !.op = "tasks", !.tasks = tasks ] ]
  /\ UNCHANGED << agentvars, securityvars, adapter, pool >>

InitTasks ==
  /\ AgentInit
  /\ strategy = "reactive"
  /\ gate = NewGate(TRUE, {})
  /\ vault = NewVault
  /\ \E n \in 0..MaxTaskMemories, k \in 0..MaxTaskMemories,
        odd \in { "task", "interaction" }, imp \in { 5, 8, 9 } :
       memory = [ NewMemory(DefaultMaxItems) EXCEPT
                    !.memories = TaskStore(n, k, odd, imp) ]
  /\ adapter = NewAdapter
  /\ pool = NewPool(FALSE)

NextTasks == GetCommonTasks

\* get_common_tasks called on long-term stores of up to MaxTaskMemories items.
SpecTasks == InitTasks /\ [][NextTasks]_vars

\* ------------------------------------------- AgentMemory, every operation
\* Bound on the number of items in the long-term store.
MaxStore == 2

\* AgentMemory.add_to_long_term(item) with a caller-built item
AddToLongTerm ==
  /\ Len(memory.memories) < MaxStore
  /\ \E item \in StoreItems :
       memory' = [ memory EXCEPT
                     !.memories = SaveTo(@, item),
                     !.last = [ NoCall EXCEPT !.op = "add_long" ] ]
  /\ UNCHANGED << agentvars, securityvars, adapter, pool >>

\* AgentMemory.save_interaction_to_long_term(user_input, agent_response)
SaveInteractionToLongTerm ==
  /\ Len(memory.memories) < MaxStore
  /\ LET item == InteractionItem(Len(memory.memories) + 1, << "h","i" >>,
                                 DefaultInteractionImportance)
     IN memory' = [ memory EXCEPT
                      !.memories = SaveTo(@, item),
                      !.last = [ NoCall EXCEPT !.op = "save_interaction" ] ]
  /\ UNCHANGED << agentvars, securityvars, adapter, pool >>

\* AgentMemory.save_task_result_to_long_term(task, result, success)
SaveTaskResultToLongTerm ==
  /\ Len(memory.memories) < MaxStore
  /\ LET item == TaskResultItem(Len(memory.memories) + 1, << "f","l","y" >>,
                                DefaultTaskImportance)
     IN memory' = [ memory EXCEPT
                      !.memories = SaveTo(@, item),
                      !.last = [ NoCall EXCEPT !.op = "save_task" ] ]
  /\ UNCHANGED << agentvars, securityvars, adapter, pool >>

\* AgentMemory.search_long_term(query) with the default top_k
SearchLongTermDefault ==
  /\ \E query \in Queries :
       LET found == SearchMemories(memory.memories, query, DefaultTopK)
       IN memory' = [ memory EXCEPT
                        !.memories = StoreAfterSearch(@, query),
                        !.last = [ NoCall EXCEPT
                                     !.op = "search",
                                     !.query = query,
                                     !.top_k = DefaultTopK,
                                     !.found = found ] ]
  /\ UNCHANGED << agentvars, securityvars, adapter, pool >>

\* AgentMemory.get_user_preferences()
GetUserPreferences ==
  /\ LET found == SearchMemories(memory.memories, PreferenceQuery, PreferencesTopK)
     IN memory' = [ memory EXCEPT
                      !.memories = StoreAfterSearch(@, PreferenceQuery),
                      !.last = [ NoCall EXCEPT
                                   !.op = "preferences",
                                   !.found = found,
                                   !.preferences =
                                      CollectPreferences(memory.memories, found) ] ]
  /\ UNCHANGED << agentvars, securityvars, adapter, pool >>

\* LongTermMemory.update_memory_importance(memory_id, importance), importance
\* any float
UpdateImportanceAny ==
  /\ \E memory_id \in MemoryIds, importance \in AnyImportances :
       LET i == FirstWithId(memory.memories, memory_id)
       IN memory' = [ memory EXCEPT
                        !.memories = IF i = 0 THEN @
                                     ELSE [ @ EXCEPT ![i].importance = importance ],
                        !.last = [ NoCall EXCEPT
                                     !.op = "update",
                                     !.id = memory_id,
                                     !.importance = importance,
                                     !.hit = i ] ]
  /\ UNCHANGED << agentvars, securityvars, adapter, pool >>

NextStore ==
  \/ AddToLongTerm
  \/ SaveInteractionToLongTerm
  \/ SaveTaskResultToLongTerm
  \/ SearchLongTermDefault
  \/ GetUserPreferences
  \/ GetCommonTasks
  \/ UpdateImportanceAny

\* Every operation of AgentMemory that touches long-term memory, on one
\* AgentMemory.
SpecStore == InitLong /\ [][NextStore]_vars

\* ------------------------------------------------- adapter, driven directly
\* Bound on the number of calls made on the adapter.
MaxAdapterCalls == 4

\* BrowserUseAdapter.start_session: create_session returns or raises.
AdapterStartSession ==
  /\ adapter.n < MaxAdapterCalls
  /\ \E ok \in BOOLEAN :
       /\ session_active' = IF ok THEN TRUE ELSE session_active
       /\ adapter' = [ n |-> adapter.n + 1,
                       phase |-> IF ok THEN "open" ELSE adapter.phase,
                       last |-> AdapterCall("start", NoAction,
                                            IF ok THEN "none" ELSE "backend",
                                            TRUE, NoOutcome, adapter.phase) ]
  /\ UNCHANGED << runvars, securityvars, memory, pool >>

\* BrowserUseAdapter.end_session: close_session is called only while
\* session_active, and returns or raises.
AdapterEndSession ==
  /\ adapter.n < MaxAdapterCalls
  /\ IF session_active
     THEN \E ok \in BOOLEAN :
            /\ session_active' = IF ok THEN ActiveAfterClose ELSE session_active
            /\ adapter' = [ n |-> adapter.n + 1,
                            phase |-> IF ok THEN "closed" ELSE adapter.phase,
                            last |-> AdapterCall("end", NoAction,
                                                 IF ok THEN "none" ELSE "backend",
                                                 TRUE, NoOutcome, adapter.phase) ]
     ELSE /\ session_active' = session_active
          /\ adapter' = [ n |-> adapter.n + 1,
                          phase |-> IF adapter.phase = "new" THEN "new" ELSE "closed",
                          last |-> AdapterCall("end", NoAction, "none", FALSE,
                                               NoOutcome, adapter.phase) ]
  /\ UNCHANGED << runvars, securityvars, memory, pool >>

\* BrowserUseAdapter.get_current_page_state
AdapterGetState ==
  /\ adapter.n < MaxAdapterCalls
  /\ IF NoSession(session_active)
     THEN adapter' = [ adapter EXCEPT
                         !.n = @ + 1,
                         !.last = AdapterCall("observe", NoAction, "no_session",
                                              FALSE, NoOutcome, adapter.phase) ]
     ELSE \E ok \in BOOLEAN :
            adapter' = [ adapter EXCEPT
                           !.n = @ + 1,
                           !.last = AdapterCall("observe", NoAction,
                                                IF ok THEN "none" ELSE "backend",
                                                TRUE, NoOutcome, adapter.phase) ]
  /\ UNCHANGED << agentvars, securityvars, memory, pool >>

\* BrowserUseAdapter.execute_action(action)
AdapterExecuteAction ==
  /\ adapter.n < MaxAdapterCalls
  /\ \E a \in AdapterActions :
       IF NoSession(session_active)
       THEN adapter' = [ adapter EXCEPT
                           !.n = @ + 1,
                           !.last = AdapterCall("execute", a, "no_session", FALSE,
                                                NoOutcome, adapter.phase) ]
       ELSE \E backend_ok \in BOOLEAN :
              adapter' = [ adapter EXCEPT
                             !.n = @ + 1,
                             !.last = AdapterCall("execute", a, "none",
                                                  ReachesBackend(a),
                                                  ExecuteAction(a, backend_ok),
                                                  adapter.phase) ]
  /\ UNCHANGED << agentvars, securityvars, memory, pool >>

\* BrowserUseAdapter() right after construction.
InitAdapter ==
  /\ AgentInit
  /\ strategy = "reactive"
  /\ gate = NewGate(TRUE, {})
  /\ vault = NewVault
  /\ memory = NewMemory(DefaultMaxItems)
  /\ adapter = NewAdapter
  /\ pool = NewPool(FALSE)

NextAdapter ==
  \/ AdapterStartSession
  \/ AdapterEndSession
  \/ AdapterGetState
  \/ AdapterExecuteAction

\* Calls made directly on one BrowserUseAdapter.
SpecAdapter == InitAdapter /\ [][NextAdapter]_vars

\* ------------------------------------ concurrent run_task calls (reactive)
\* Two BrowserAgent.run_task coroutines on one event loop.  A coroutine runs
\* from the answer of the call it awaits to its next await; pc names the call
\* awaited ("in_create", "in_observe", "in_llm", "in_action", "in_close").  The
\* session test of get_current_page_state and execute_action, and the one of
\* end_session, run before the await inside them, so they belong to the
\* step that makes the call.

\* The except or return statement has produced res; `finally: await
\* self.browser.end_session()` awaits close_session only while the flag is
\* set, otherwise run_task returns at once.
Finish(p, c, res, at) ==
  [ p EXCEPT !.co[c] = [ @ EXCEPT
       !.result = res,
       !.no_session_at = at,
       !.pc = IF p.active[Inst(p, c)] THEN "in_close" ELSE "returned" ] ]

\* `return AgentOutput(success=True, ...)` after the loop.
AfterLoop(p, c) == Finish(p, c, SuccessOutput(Ref(Inst(p, c))), "none")

\* Top of iteration k: get_current_page_state raises without a session,
\* otherwise the backend call is awaited.
EnterIteration(p, c, k) ==
  IF NoSession(p.active[Inst(p, c)])
  THEN Finish(p, c, ErrorOutput(Ref(Inst(p, c))), "observe")
  ELSE [ p EXCEPT !.co[c] = [ @ EXCEPT !.pc = "in_observe", !.step = k ] ]

\* run_task is called: up to `await self.browser_service.create_session()`.
CoBegin ==
  /\ \E c \in 1..2 :
       /\ pool.co[c].pc = "new"
       /\ pool' = [ pool EXCEPT !.co[c].pc = "in_create" ]
  /\ UNCHANGED << agentvars, securityvars, memory, adapter >>

\* create_session answers: the flag is set and the first iteration begins,
\* or the exception goes to the except clause.
CoCreated ==
  /\ \E c \in 1..2, ok \in BOOLEAN :
       /\ pool.co[c].pc = "in_create"
       /\ pool' =
            IF ok
            THEN LET p == [ pool EXCEPT !.active[Inst(pool, c)] = ActiveAfterCreate ]
                 IN IF 0 < max_steps THEN EnterIteration(p, c, 0) ELSE AfterLoop(p, c)
            ELSE Finish(pool, c, ErrorOutput(Ref(Inst(pool, c))), "none")
  /\ UNCHANGED << agentvars, securityvars, memory, adapter >>

\* The observer answers: the Reasoner call is awaited, or the exception goes
\* to the except clause.
CoObserved ==
  /\ \E c \in 1..2, ok \in BOOLEAN :
       /\ pool.co[c].pc = "in_observe"
       /\ pool' = IF ok THEN [ pool EXCEPT !.co[c].pc = "in_llm" ]
                  ELSE Finish(pool, c, ErrorOutput(Ref(Inst(pool, c))), "none")
  /\ UNCHANGED << agentvars, securityvars, memory, adapter >>

\* The Reasoner answers an action: execute_action raises without a session,
\* otherwise the backend call is awaited.
CoThought ==
  /\ \E c \in 1..2 :
       /\ pool.co[c].pc = "in_llm"
       /\ \/ \E r \in PoolIntents :
               pool' = IF NoSession(pool.active[Inst(pool, c)])
                       THEN Finish([ pool EXCEPT !.co[c].action = r ], c,
                                   ErrorOutput(Ref(Inst(pool, c))), "execute")
                       ELSE [ pool EXCEPT !.co[c] = [ @ EXCEPT !.pc = "in_action",
                                                               !.action = r ] ]
          \/ pool' = Finish(pool, c, ErrorOutput(Ref(Inst(pool, c))), "none")
  /\ UNCHANGED << agentvars, securityvars, memory, adapter >>

\* The backend calls of execute_action (the action and the page snapshot
\* after it) have answered: add_step, stop check, then the next iteration or
\* the return after the loop.
CoExecuted ==
  /\ \E c \in 1..2, backend_ok \in BOOLEAN :
       /\ pool.co[c].pc = "in_action"
       /\ LET a == pool.co[c].action
              out == ExecuteAction(a, backend_ok)
              p == [ pool EXCEPT !.history[Inst(pool, c)] =
                                    AddStep(@, PoolEntry(c, a, out)) ]
          IN pool' = IF IsStop(a) THEN AfterLoop(p, c)
                     ELSE IF MoreSteps(pool.co[c].step)
                          THEN EnterIteration(p, c, pool.co[c].step + 1)
                          ELSE AfterLoop(p, c)
  /\ UNCHANGED << agentvars, securityvars, memory, adapter >>

\* close_session answers: the flag is cleared and run_task returns, or the
\* exception leaves run_task in place of the result.
CoClosed ==
  /\ \E c \in 1..2, ok \in BOOLEAN :
       /\ pool.co[c].pc = "in_close"
       /\ pool' = IF ok
                  THEN [ pool EXCEPT !.active[Inst(pool, c)] = ActiveAfterClose,
                                     !.co[c].pc = "returned" ]
                  ELSE [ pool EXCEPT !.co[c] = [ @ EXCEPT !.pc = "raised",
                                                          !.result = NoResult ] ]
  /\ UNCHANGED << agentvars, securityvars, memory, adapter >>

\* Two run_task calls started together, on one instance or on two.
InitPool ==
  /\ AgentInit
  /\ strategy = "reactive"
  /\ gate = NewGate(TRUE, {})
  /\ vault = NewVault
  /\ memory = NewMemory(DefaultMaxItems)
  /\ adapter = NewAdapter
  /\ pool \in { NewPool(shared) : shared \in BOOLEAN }

NextPool ==
  \/ CoBegin
  \/ CoCreated
  \/ CoObserved
  \/ CoThought
  \/ CoExecuted
  \/ CoClosed

\* Two concurrent run_task calls of reactive agents.
SpecPool == InitPool /\ [][NextPool]_vars

\* ------------------------------------------------------------ properties
Terminal == pc \in {"returned", "raised"}

\* The current loop iteration has finished (the next one has not begun).
StepOver == pc \in {"observe", "finally", "returned", "raised"}

PrimaryEntry == Entry(action_result, execution_result)

\* C1: in a reactive or reflection run, once the Reasoner chooses stop the run
\* ends on that step: the stop action is dispatched and recorded, it is the
\* last entry of the history the result carries, and no observation, Reasoner
\* decision or dispatch follows it.
C1_StopEndsRun ==
  (strategy \in {"reactive", "reflection"} /\ pc = "returned" /\ obs.stopChosen) =>
     /\ obs.stopDispatched
     /\ obs.afterStop = 0
     /\ Len(result.history) > obs.runBase
     /\ IsStop(result.history[Len(result.history)].action)

\* C2: the history carried by the result of a reactive run has at most
\* max_steps entries.
C2_ReactiveHistoryBound ==
  (strategy = "reactive" /\ pc = "returned") => Len(result.history) <= max_steps

\* C3: in every strategy and on every exit path, the session opened at run
\* start is released before run_task returns: session_active is false after
\* the return, and a run whose create_session succeeded has called
\* close_session exactly once when it ends.
C3_SessionReleased ==
  /\ pc = "returned" => ~session_active
  /\ (Terminal /\ obs.created) => obs.closeCalls = 1
  /\ obs.closeCalls <= 1

\* C3 witness: a run that opened the session, failed, and returned with the
\* session closed.
C3_Witness ==
  /\ pc = "returned"
  /\ obs.created
  /\ ~result.success
  /\ obs.closeCalls = 1
  /\ ~session_active

\* C4: when the observe step or an LLM call (reason, plan, reflect, correct)
\* raises, the run aborts at once: from then on no observation, LLM call or
\* dispatch is made and history does not change, and the result returned has
\* success = false and carries the history as it was at the fault.
C4_FaultAborts ==
  /\ [](obs.fault => pc \in {"finally", "returned", "raised"})
  /\ []((obs.fault /\ pc = "returned") =>
          (~result.success /\ result.history = history))
  /\ [][(obs.fault /\ obs'.fault) =>
          /\ obs'.nObserve = obs.nObserve
          /\ obs'.nLLM = obs.nLLM
          /\ obs'.nDispatch = obs.nDispatch
          /\ history' = history]_vars

\* C4 witness: a run that recorded something, then faulted, has returned.
C4_Witness ==
  /\ obs.fault
  /\ pc = "returned"
  /\ ~result.success
  /\ Len(result.history) >= 1

\* C5: every run_task invocation ends by returning a result (success flag,
\* message, history); none ends by raising to the caller.
C5_AlwaysReturnsResult ==
  Terminal => (pc = "returned" /\ result # NoResult)

\* C6: in a plan run, when a step's execution fails and the run is not
\* recovered, the run aborts: the failure result's message names the failing
\* step's ordinal, no later step is dispatched, and history ends with the
\* failing step's entry.
C6_PlanAbortNamesStep ==
  (strategy = "plan" /\ pc = "returned" /\ obs.failedStep >= 0 /\ ~result.success) =>
     /\ result.message.step_num = obs.failedStep
     /\ obs.nDispatch = obs.failedStep + 1
     /\ Len(result.history) = obs.runBase + obs.failedStep + 1

\* C7 as stated: in a reflection run, every step whose verdict is
\* is_correct = false makes exactly one Corrector call, a step whose verdict is
\* is_correct = true makes none, and a corrected action that succeeded is a
\* second entry directly after the retained original entry.
C7_CorrectorOncePerIncorrect ==
  strategy = "reflection" =>
     /\ (StepOver /\ verdict = "incorrect") => obs.stepCorr = 1
     /\ verdict = "correct" => obs.stepCorr = 0
     /\ (StepOver /\ correction_result.success) =>
          /\ Len(history) = obs.stepBase + 2
          /\ history[obs.stepBase + 1] = PrimaryEntry
          /\ history[obs.stepBase + 2] = Entry(response, correction_result)

\* C7 amended: in a reflection run, every step whose Reasoner action is not
\* stop and whose verdict is is_correct = false makes exactly one Corrector
\* call; a step whose verdict is is_correct = true, or whose Reasoner action is
\* stop, makes none; a corrected action that succeeded is a second entry
\* directly after the retained original entry.
C7_CorrectorOncePerIncorrectNonStop ==
  strategy = "reflection" =>
     /\ (StepOver /\ verdict = "incorrect" /\ ~IsStop(action_result)) => obs.stepCorr = 1
     /\ (verdict # "incorrect" \/ IsStop(action_result)) => obs.stepCorr = 0
     /\ obs.stepCorr <= 1
     /\ (StepOver /\ correction_result.success) =>
          /\ Len(history) = obs.stepBase + 2
          /\ history[obs.stepBase + 1] = PrimaryEntry
          /\ history[obs.stepBase + 2] = Entry(response, correction_result)

\* C7 witness: a step judged incorrect whose correction executed successfully
\* has ended with both entries in history.
C7_Witness ==
  /\ strategy = "reflection"
  /\ StepOver
  /\ verdict = "incorrect"
  /\ obs.stepCorr = 1
  /\ correction_result.success
  /\ Len(history) = obs.stepBase + 2

\* C8: in a reflection run, once the executor has returned an outcome for the
\* Reasoner's action, the (action, outcome) pair is in the history carried by
\* the result, whatever the Reflector or Corrector calls do.
C8_PrimaryAlwaysRecorded ==
  (strategy = "reflection" /\ pc = "returned" /\ execution_result # NoOutcome) =>
     /\ Len(result.history) > obs.stepBase
     /\ result.history[obs.stepBase + 1] = PrimaryEntry

\* C9: the history carried by the result of a reflection run has as many
\* entries as steps performed plus corrections that executed successfully,
\* and never more than 2 * max_steps.
C9_ReflectionHistoryCount ==
  (strategy = "reflection" /\ pc = "returned") =>
     /\ Len(result.history) = obs.nPrimary + obs.nCorrOK
     /\ Len(result.history) <= 2 * max_steps

\* C10: the history carried by the result of a plan run has at most max_steps
\* entries, whatever plan the Planner returned.
C10_PlanHistoryBound ==
  (strategy = "plan" /\ pc = "returned") => Len(result.history) <= max_steps

\* C11: in a plan run, once a plan step whose action is stop was dispatched,
\* no later plan step is observed for or dispatched, so none is recorded.
C11_PlanStopEndsRun ==
  strategy = "plan" => obs.afterStop = 0

\* C12: in a plan run the Planner is called once, before any dispatch, and not
\* again; the steps dispatched so far are the first steps of the plan, in plan
\* order, one history entry each; and when every step of the plan was
\* dispatched and succeeded the result is a success whose history has as many
\* entries as the plan has steps.
C12_PlanOnceInOrder ==
  strategy = "plan" =>
     /\ obs.nLLM <= 1
     /\ obs.nDispatch > 0 => obs.nLLM = 1
     /\ obs.nDispatch <= Len(plan)
     /\ Len(history) = obs.runBase + obs.nDispatch
     /\ \A i \in 1..obs.nDispatch : history[obs.runBase + i].action = plan[i]
     /\ ( /\ pc = "returned"
          /\ obs.nLLM = 1
          /\ ~obs.fault
          /\ obs.nDispatch = Len(plan)
          /\ \A i \in 1..obs.nDispatch : history[obs.runBase + i].success ) =>
          /\ result.success
          /\ Len(result.history) = Len(plan)

\* C13: a reactive or reflection run that performed max_steps steps without
\* the Reasoner choosing stop returns success = true with the message "Task
\* completed successfully", and so does a run ended by a stop.
C13_BudgetExhaustionIsSuccess ==
  (strategy \in {"reactive", "reflection"} /\ pc = "returned" /\ ~obs.fault) =>
     /\ (obs.nPrimary = max_steps /\ ~obs.stopChosen) =>
          /\ result.success
          /\ result.message.text = "Task completed successfully"
     /\ obs.stopDispatched =>
          /\ result.success
          /\ result.message.text = "Task completed successfully"

\* C13 witness: a run has returned after max_steps steps, none of them a stop.
C13_Witness ==
  /\ strategy \in {"reactive", "reflection"}
  /\ pc = "returned"
  /\ ~obs.fault
  /\ obs.nPrimary = max_steps
  /\ ~obs.stopChosen
  /\ result.success

\* C14: in a reflection run the Corrector is called for every non-stop step
\* judged incorrect, however many corrections were made before, so the number
\* of Corrector calls is bounded by the number of steps (at most max_steps)
\* and not by max_reflections.
C14_ReflectionCapNotEnforced ==
  strategy = "reflection" =>
     /\ obs.nCorr <= obs.nPrimary
     /\ obs.nPrimary <= max_steps
     /\ (StepOver /\ verdict = "incorrect" /\ ~IsStop(action_result)) =>
          /\ obs.stepCorr = 1
          /\ obs.nCorr >= 1

\* C14 witness: a run has made more Corrector calls than max_reflections.
C14_Witness ==
  /\ strategy = "reflection"
  /\ obs.nCorr > max_reflections

\* C15: every dispatch of an action to the executor is preceded by a
\* check_action_allowed call, so the executor was never called more often
\* than the gate's ledger has entries.
C15_GateConsultedBeforeDispatch ==
  obs.nDispatch <= Len(gate.action_history)

\* Two characters that are the same letter in either case.
SameLetter(c, d) ==
  \/ c = d
  \/ c \in UpperLetters /\ UpperToLower[c] = d
  \/ d \in UpperLetters /\ UpperToLower[d] = c

\* The strings are equal when letter case is ignored.
EqIgnoreCase(a, b) ==
  /\ Len(a) = Len(b)
  /\ \A i \in 1..Len(a) : SameLetter(a[i], b[i])

\* sub occurs in str when letter case is ignored.
ContainsIgnoreCase(str, sub) ==
  \E i \in 0..(Len(str) - Len(sub)) :
     \A j \in 1..Len(sub) : SameLetter(str[i + j], sub[j])

\* C16: with HITL disabled every check_action_allowed call returns true at
\* once, whatever the action name and details: nobody is prompted and the
\* call never waits for a reply.
C16_DisabledHitlAllows ==
  ~gate.enable_hitl =>
     /\ gate.pc = "idle"
     /\ ~gate.last.prompted
     /\ ~gate.last.replied
     /\ Len(gate.calls) > 0 => gate.last.returned = "true"

\* C16 witness: with HITL disabled, a call whose action name contains a
\* sensitive keyword has returned true.
C16_Witness ==
  /\ ~gate.enable_hitl
  /\ Len(gate.calls) > 0
  /\ \E k \in gate.sensitive_actions : ContainsIgnoreCase(gate.last.action, k)
  /\ gate.last.returned = "true"

\* C17: a call that asked the human returns true iff a reply arrived before
\* the timeout and the reply is, ignoring letter case, exactly one of y, yes,
\* true, 1; otherwise (timeout, any other reply) it returns false; while the
\* reply is awaited nothing is returned.
C17_AffirmativeReplyOnly ==
  gate.last.prompted =>
     /\ gate.pc = "waiting" <=> gate.last.returned = "none"
     /\ gate.pc = "idle" =>
          /\ gate.last.returned \in {"true", "false"}
          /\ gate.last.returned = "true" <=>
               /\ gate.last.replied
               /\ \E form \in AffirmativeForms : EqIgnoreCase(gate.last.reply, form)

\* C17 witness: the human answered YES to the prompt and the call returned true.
C17_Witness ==
  /\ gate.last.prompted
  /\ gate.last.replied
  /\ gate.last.reply = << "Y","E","S" >>
  /\ gate.last.returned = "true"

\* C18: with HITL enabled, a check_action_allowed call asks the human iff some
\* configured keyword occurs in the action name when letter case is ignored,
\* in the name and in the keyword; any other call returns true unprompted.
C18_KeywordMatchIgnoresCase ==
  (gate.enable_hitl /\ Len(gate.calls) > 0) =>
     /\ gate.last.prompted <=>
          \E k \in gate.sensitive_actions : ContainsIgnoreCase(gate.last.action, k)
     /\ ~gate.last.prompted => gate.last.returned = "true"

\* C19: the ledger has one entry per check_action_allowed call, in call order,
\* each holding the call's action, its details ({} for None) and a timestamp,
\* timestamps never decreasing; the entry is there while the human is still
\* being waited for; and no step removes or rewrites an entry.
C19_LedgerRecordsEveryCall ==
  /\ [] /\ Len(gate.action_history) = Len(gate.calls)
        /\ \A i \in 1..Len(gate.action_history) :
             /\ gate.action_history[i].action = gate.calls[i].action
             /\ gate.action_history[i].details =
                  (IF gate.calls[i].arg = "None" THEN "{}" ELSE gate.calls[i].arg)
             /\ \A j \in 1..i :
                  gate.action_history[j].timestamp <= gate.action_history[i].timestamp
        /\ gate.pc = "waiting" =>
             /\ Len(gate.action_history) > 0
             /\ gate.action_history[Len(gate.action_history)].action = gate.last.action
  /\ [][ /\ Len(gate.action_history') >= Len(gate.action_history)
         /\ SubSeq(gate.action_history', 1, Len(gate.action_history)) =
              gate.action_history ]_vars

\* C19 witness: two calls were made, the second was denied by the human, and
\* the ledger holds both entries.
C19_Witness ==
  /\ Len(gate.calls) >= 2
  /\ Len(gate.action_history) = Len(gate.calls)
  /\ gate.last.replied
  /\ gate.last.returned = "false"

\* C20: get_credential(service) returns the username and the password last
\* passed to store_credential for that service, and none for a service that
\* was never stored.
C20_CredentialRoundTrip ==
  vault.asked # "<none>" => vault.answer = vault.plain[vault.asked]

\* The smaller of two numbers.
Min(a, b) == IF a < b THEN a ELSE b

\* C21: after any sequence of add_to_short_term calls the short-term history
\* has at most max_items items, and they are the most recently added items in
\* the order they were added.
C21_ShortTermBounded ==
  LET kept == Min(Len(memory.added), memory.max_items)
  IN /\ Len(memory.history) <= memory.max_items
     /\ memory.history =
          SubSeq(memory.added, Len(memory.added) - kept + 1, Len(memory.added))

\* C21 witness: more items were added than max_items = 2 allows, the history
\* is full, and the two items kept differ.
C21_Witness ==
  /\ memory.max_items >= 2
  /\ Len(memory.added) > memory.max_items
  /\ Len(memory.history) = memory.max_items
  /\ memory.history[1] # memory.history[2]

\* Item i of store is returned ahead of item j: greater importance, or equal
\* importance and stored earlier.
RankedAhead(store, i, j) ==
  \/ store[i].importance > store[j].importance
  \/ store[i].importance = store[j].importance /\ i < j

\* C22: a search returns only items whose content contains the query ignoring
\* letter case, each once, ordered by descending importance with ties in store
\* order; it returns min(top_k, number of matching items) of them, and no
\* matching item left out ranks ahead of a returned one.
C22_SearchRanksMatches ==
  memory.last.op = "search" =>
     LET store == memory.memories
         found == memory.last.found
         all == { i \in 1..Len(store) :
                    ContainsIgnoreCase(store[i].content, memory.last.query) }
         got == { found[n] : n \in 1..Len(found) }
     IN /\ got \subseteq all
        /\ Cardinality(got) = Len(found)
        /\ Len(found) = Min(memory.last.top_k, Cardinality(all))
        /\ \A a, b \in 1..Len(found) :
             a < b => RankedAhead(store, found[a], found[b])
        /\ \A i \in all \ got : \A j \in got : RankedAhead(store, j, i)
        /\ memory.last.items = [ n \in 1..Len(found) |-> store[found[n]] ]

\* C22 witness: a search was cut off at top_k >= 2 with more items matching,
\* and the importance order put a later-stored item ahead of an earlier one.
C22_Witness ==
  /\ memory.last.op = "search"
  /\ memory.last.top_k >= 2
  /\ Len(memory.last.found) = memory.last.top_k
  /\ Len(MatchingIndices(memory.memories, memory.last.query)) > memory.last.top_k
  /\ \E a, b \in 1..Len(memory.last.found) :
       a < b /\ memory.last.found[a] > memory.last.found[b]

C24_UpdateFrame ==
  [][ memory'.last.op = "update" =>
        LET old == memory.memories
            new == memory'.memories
            id == memory'.last.id
            v == memory'.last.importance
            changed == { i \in 1..Len(old) : new[i] # old[i] }
        IN /\ Len(new) = Len(old)
           /\ Cardinality(changed) <= 1
           /\ \A i \in changed :
                /\ old[i].id = id
                /\ new[i] = [ old[i] EXCEPT !.importance = v ]
           /\ (\E i \in 1..Len(old) : old[i].id = id) =>
                \E i \in 1..Len(old) : old[i].id = id /\ new[i].importance = v
           /\ (\A i \in 1..Len(old) : old[i].id # id) => new = old
           /\ memory'.history = memory.history
           /\ memory'.max_items = memory.max_items ]_vars

\* C24 witness: an update changed the first of two items sharing the id and
\* left the second, whose importance differs from v, as it was.
C24_Witness ==
  /\ memory.last.op = "update"
  /\ memory.last.hit > 0
  /\ \E j \in 1..Len(memory.memories) :
       /\ j # memory.last.hit
       /\ memory.memories[j].id = memory.last.id
       /\ memory.memories[j].importance # memory.last.importance

\* C25: get_common_tasks returns the set of task values of all long-term
\* items whose content contains "task" ignoring letter case and whose metadata
\* has a task field, however many such items there are.
C25_CommonTasksComplete ==
  memory.last.op = "tasks" =>
     memory.last.tasks =
       { memory.memories[i].metadata.task :
           i \in { j \in 1..Len(memory.memories) :
                     /\ ContainsIgnoreCase(memory.memories[j].content, TaskQuery)
                     /\ memory.memories[j].metadata.has_task } }

\* C26: once a browser_service call has raised inside a dispatch, the run
\* observes and dispatches nothing more, and the result it returns has
\* success = false.
C26_BackendFailureAborts ==
  obs.backendFault =>
     /\ obs.afterBackendFault = 0
     /\ pc = "returned" => ~result.success

\* The action lacks a parameter its kind requires, or its kind is not one the
\* executor knows.
Malformed(a) ==
  \/ a.action = "click" /\ "element_id" \notin a.parameters
  \/ a.action = "type" /\ ~({"element_id", "text"} \subseteq a.parameters)
  \/ a.action = "goto" /\ "url" \notin a.parameters
  \/ a.action \notin {"click", "type", "scroll", "goto", "wait", "stop"}

\* C27: with an active session, execute_action of a malformed action returns
\* a failed outcome that does not depend on the backend; in a reactive run the
\* failed outcome of such a step is the entry appended for it, and the run
\* goes on: it ends only on stop, on the step budget, or on a fault of the
\* observer or Reasoner.
C27_MalformedActionHandled ==
  /\ \A a \in AdapterActions :
       Malformed(a) =>
         /\ ~ExecuteAction(a, TRUE).success
         /\ ExecuteAction(a, FALSE) = ExecuteAction(a, TRUE)
  /\ ( /\ strategy = "reactive"
       /\ StepOver
       /\ execution_result # NoOutcome
       /\ Malformed(action_result) ) =>
       /\ ~execution_result.success
       /\ Len(history) > 0
       /\ history[Len(history)] = PrimaryEntry
       /\ (pc # "observe" /\ ~obs.fault) => obs.nPrimary = max_steps

\* C27 witness: a reactive run dispatched click without element_id, recorded
\* the failed outcome and went on to its next step.
C27_Witness ==
  /\ strategy = "reactive"
  /\ pc = "observe"
  /\ Malformed(action_result)
  /\ execution_result # NoOutcome
  /\ ~execution_result.success
  /\ history[Len(history)] = PrimaryEntry

\* C28: get_current_page_state and execute_action raise the no-session error
\* exactly when called before the first start_session returned or after an
\* end_session returned, and then make no browser_service call; the flag
\* session_active is set exactly while a session is open.
C28_NoSessionError ==
  /\ session_active <=> adapter.phase = "open"
  /\ adapter.last.op \in {"observe", "execute"} =>
       /\ adapter.last.raised = "no_session" <=> adapter.last.phase_before # "open"
       /\ adapter.last.raised = "no_session" => ~adapter.last.backend

\* C28 witness: execute_action was called after a session was started and
\* ended, and raised the no-session error.
C28_Witness ==
  /\ adapter.phase = "closed"
  /\ adapter.n >= 3
  /\ adapter.last.op = "execute"
  /\ adapter.last.raised = "no_session"

\* C29: within a run, the entries appended to history carry strictly
\* increasing dispatch ordinals (the order of appending is the order of
\* dispatch), each entry is appended no earlier than its dispatch, and no step
\* removes or changes an entry appended before.
C29_HistoryAppendOnly ==
  /\ [] /\ Len(obs.ords) = Len(history) - obs.runBase
        /\ \A i, j \in 1..Len(obs.ords) : i < j => obs.ords[i] < obs.ords[j]
        /\ \A i \in 1..Len(obs.ords) : obs.ords[i] \in 1..obs.nDispatch
  /\ [][ pc # "idle" =>
           /\ Len(history') >= Len(history)
           /\ SubSeq(history', 1, Len(history)) = history ]_vars

\* C29 witness: a reflection run has appended the entry of a step, then the
\* entry of its correction, then the entry of the next step.
C29_Witness ==
  /\ strategy = "reflection"
  /\ Len(obs.ords) >= 3
  /\ obs.nCorrOK >= 1

\* C30: the history a result carries holds the entries recorded in that run
\* and no others.
C30_ResultHistoryOfThisRun ==
  pc = "returned" => Len(result.history) = Len(history) - obs.runBase

\* C31: every memory operation leaves the items already in long-term memory
\* where they are: the store never gets shorter, each stored item keeps its
\* position, id, timestamp, content and metadata, and its importance changes
\* only in an update_memory_importance call, for the id of that call.
C31_LongTermAppendOnly ==
  [][ LET old == memory.memories
          new == memory'.memories
      IN /\ Len(new) >= Len(old)
         /\ \A i \in 1..Len(old) :
              /\ new[i].id = old[i].id
              /\ new[i].timestamp = old[i].timestamp
              /\ new[i].content = old[i].content
              /\ new[i].metadata = old[i].metadata
              /\ new[i].importance # old[i].importance =>
                   /\ memory'.last.op = "update"
                   /\ memory'.last.id = old[i].id ]_vars

\* C31 witness: an update changed the importance of the first of two stored
\* items, after which the store still holds both in their order.
C31_Witness ==
  /\ memory.last.op = "update"
  /\ memory.last.hit = 1
  /\ Len(memory.memories) >= 2
  /\ memory.memories[1].importance = 2
  /\ memory.memories[1].timestamp # memory.memories[2].timestamp

\* C32: no two items of long-term memory share an id.
C32_IdsUnique ==
  \A i, j \in 1..Len(memory.memories) :
    i # j => memory.memories[i].id # memory.memories[j].id

\* C33: every item held in short-term or long-term memory has an importance
\* between 0 and 1 (0 and 10 tenths).
C33_ImportanceInRange ==
  /\ \A i \in 1..Len(memory.memories) : memory.memories[i].importance \in 0..10
  /\ \A i \in 1..Len(memory.history) : memory.history[i].importance \in 0..10

\* C34: when every awaited call answers, a run_task invocation that has begun
\* ends (it returns, or the exception of the session release leaves it); a
\* reactive or reflection run begins at most max_steps loop iterations and a
\* plan run at most as many as the plan has steps.
C34_RunTerminates ==
  /\ (pc = "start") ~> Terminal
  /\ [](strategy \in {"reactive", "reflection"} => obs.nObserve <= max_steps)
  /\ [](strategy = "plan" => obs.nObserve <= Len(plan))

\* C34 witness: a reflection run that used every iteration of its budget,
\* each with a correction, has ended.
C34_Witness ==
  /\ Terminal
  /\ strategy = "reflection"
  /\ obs.nObserve = max_steps
  /\ obs.nCorr = max_steps
  /\ ~obs.fault

\* The entries of a history were appended by the two runs in turn: an entry
\* of one run lies between two entries of the other.
Interleaved(h) ==
  \E i, j, k \in 1..Len(h) : i < j /\ j < k /\ h[i].by = h[k].by /\ h[j].by # h[i].by

\* C35: with one agent instance per run, no run meets the no-active-session
\* error and the history of an instance holds only entries of its own run;
\* on a shared instance a run meets that error only after the other run has
\* returned, having released the session, and the run that met it ends with a
\* failure result.
C35_SharedInstanceUnsafe ==
  \A c \in 1..2 :
    LET other == 3 - c
    IN /\ ~pool.shared =>
            /\ pool.co[c].no_session_at = "none"
            /\ \A k \in 1..Len(pool.history[c]) : pool.history[c][k].by = c
       /\ pool.co[c].no_session_at # "none" =>
            /\ pool.shared
            /\ pool.co[other].pc = "returned"
            /\ ~pool.active[1]
            /\ pool.co[c].pc = "returned"
            /\ ~pool.co[c].result.success

\* C35 witness: two runs on a shared instance have both returned; the second
\* met the no-active-session error when it dispatched its action and returned
\* a failure, the first returned success, and both results refer to the one
\* history, in which their entries alternate.
C35_Witness ==
  /\ pool.shared
  /\ pool.co[1].pc = "returned"
  /\ pool.co[2].pc = "returned"
  /\ pool.co[1].result.success
  /\ pool.co[2].no_session_at = "execute"
  /\ ~pool.co[2].result.success
  /\ pool.co[1].result.history = pool.co[2].result.history
  /\ Interleaved(pool.history[1])


\* C36: in a reactive or plan run the entries appended to the history in the
\* run are as many as the dispatches made to the executor in it; in a
\* reflection run they are never more, and every corrected action whose
\* execution failed is a dispatch without an entry.
C36_EntriesMatchDispatches ==
  LET entries == Len(history) - obs.runBase
  IN /\ strategy \in {"reactive", "plan"} => entries = obs.nDispatch
     /\ strategy = "reflection" =>
          /\ entries <= obs.nDispatch
          /\ entries <= obs.nPrimary + obs.nCorrOK

\* C36 witness: a reflection run without a fault has ended; its corrected
\* action was dispatched and failed, and the history holds fewer entries than
\* dispatches were made.
C36_Witness ==
  /\ strategy = "reflection"
  /\ pc = "returned"
  /\ ~obs.fault
  /\ response # NoAction
  /\ ~correction_result.success
  /\ obs.nDispatch = obs.nPrimary + 1
  /\ Len(history) - obs.runBase = obs.nPrimary
  /\ Len(history) - obs.runBase < obs.nDispatch

\* C37: in a reflection run a stop returned by the Corrector is dispatched
\* and, when its execution succeeds, recorded, and the loop goes on to the
\* next iteration while the budget lasts (the run ends after it only when the
\* budget is used up); on a step whose Reasoner action is stop the run ends
\* after the Reflector call whatever the verdict, and no Corrector call is
\* made on that step.
C37_OnlyReasonerStopEnds ==
  /\ [][ strategy = "reflection" =>
           /\ (pc = "correct_exec" /\ session_active /\ response.action = "stop") =>
                 /\ obs'.nDispatch = obs.nDispatch + 1
                 /\ history' = IF correction_result'.success
                                THEN Append(history, Entry(response, correction_result'))
                                ELSE history
                 /\ IF step + 1 < max_steps
                    THEN pc' = "observe" /\ step' = step + 1
                    ELSE pc' = "finally"
           /\ (pc = "reflect" /\ action_result.action = "stop") =>
                 /\ pc' = "finally"
                 /\ obs'.nCorr = obs.nCorr ]_vars
  /\ [](strategy = "reflection" /\ action_result.action = "stop" => obs.stepCorr = 0)

\* C37 witness: in one reflection run the Corrector's stop was recorded and
\* another step followed, on which the Reasoner chose stop, the Reflector
\* answered is_correct=false, and the run ended without a second Corrector
\* call.
C37_Witness ==
  /\ strategy = "reflection"
  /\ pc = "returned"
  /\ Len(history) = obs.runBase + 3
  /\ history[obs.runBase + 2].action.action = "stop"
  /\ history[obs.runBase + 2].success
  /\ action_result.action = "stop"
  /\ verdict = "incorrect"
  /\ obs.nCorr = 1

\* C38: get_recent_history(count) with count >= 0 returns the last
\* min(count, length) items of the short-term history in insertion order,
\* never more than count items, and leaves the history as it was.
C38_RecentHistory ==
  memory.last.op = "recent" =>
    LET h == memory.history
        k == Min(memory.last.count, Len(h))
    IN /\ memory.last.items = SubSeq(h, Len(h) - k + 1, Len(h))
       /\ Len(memory.last.items) <= memory.last.count

====
